---------------------------- MODULE Spec2Model ----------------------------
(***************************************************************************)
(* The pandora pending-header container (package core) and the mocked      *)
(* orchestrator confirmation service (package pandora_orcclient).          *)
(*                                                                         *)
(* The container keeps its headers in an in-memory key-value database and  *)
(* reaches it through the rawdb accessors.  The database is modelled as a  *)
(* function from keys to values; a key is a tuple whose first element is   *)
(* the key's prefix:                                                       *)
(*     <<"H", hash>>          -> number     (hash-to-number index)         *)
(*     <<"h", number, hash>>  -> header     (header record)                *)
(*     <<"LastHeader">>       -> hash       (head pointer)                 *)
(* A pointer result (a number or a header that may be nil) is the empty    *)
(* set for nil and a singleton otherwise.                                  *)
(***************************************************************************)
EXTENDS Integers, Sequences, FiniteSets, TLC

\* Largest header number: the model's stand-in for the largest uint64.
\* Counting past it wraps to 0.
MaxNumber == 3
\* Headers that differ only in their extra data share a number.
MaxExtra == 1
\* Longest slice handed to WriteHeaderBatch.
MaxBatch == 2
\* Most headers staged at once.
MaxStaged == 2

VARIABLES
    headerContainer,   \* container.headerContainer: the in-memory database
    pndHeaderFeed,     \* container.pndHeaderFeed: each subscribed channel, with the
                       \* number of events delivered to it
    call,              \* the call in progress or last completed, with its arguments
    pc,                \* "idle", "batch" inside WriteHeaderBatch's loop, or "loop"
                       \* inside ReadHeaderSince's range loop
    frame,             \* locals of the ReadHeaderSince call in its range loop
    ret,               \* what the last completed call returned (nothing for a write)
    request,           \* the confirmation request its caller is assembling
    exchange,          \* the last confirmation exchange: request, response, error
    writer             \* the WriteHeader call that runs beside the reader, between
                       \* its two database writes; used where calls overlap

vars == <<headerContainer, pndHeaderFeed, call, pc, frame, ret, request, exchange,
          writer>>

------------------------------------------------------------------------------
(* Headers and hashes *)

Numbers == 0..MaxNumber

\* types.Header: the number and the rest of the content.
Headers == [Number : Numbers, Extra : 0..MaxExtra]

\* common.Hash{}: the zero hash.
ZeroHash == 0

\* header.Hash(): a digest of the whole content, the number included.  Distinct
\* headers have distinct digests, none is the zero hash, and digests are
\* ordered as their byte strings are.
Hash(header) == (MaxExtra - header.Extra) * (MaxNumber + 1) + header.Number + 1

\* A hash that is the digest of no header of the model.
StrangerHash == (MaxExtra + 1) * (MaxNumber + 1) + 1

Hashes == {ZeroHash, StrangerHash} \cup {Hash(h) : h \in Headers}

\* i++ on the unsigned number type.
Inc(i) == (i + 1) % (MaxNumber + 1)

------------------------------------------------------------------------------
(* The key-value database and the rawdb accessors *)

\* db.Put
Put(db, key, value) ==
    [k \in DOMAIN db \cup {key} |-> IF k = key THEN value ELSE db[k]]

headerNumberKey(hash) == <<"H", hash>>
headerKey(number, hash) == <<"h", number, hash>>
headHeaderKey == <<"LastHeader">>

\* Byte order of two header keys: the big-endian number, then the hash.
KeyLess(a, b) == a[2] < b[2] \/ (a[2] = b[2] /\ a[3] < b[3])

\* The keys of S in ascending byte order.
RECURSIVE SortKeys(_)
SortKeys(S) ==
    IF S = {} THEN <<>>
    ELSE LET least == CHOOSE k \in S : \A other \in S \ {k} : KeyLess(k, other)
         IN  <<least>> \o SortKeys(S \ {least})

\* db.NewIterator(prefix, nil): the keys with the prefix, in ascending order.
NewIterator(db, prefix) ==
    SortKeys({k \in DOMAIN db : k[1] = prefix})

\* common.BytesToHash on a header key: the key is longer than a hash, and the
\* hash is what is left after cropping from the left.
BytesToHash(key) == key[Len(key)]

\* rawdb.WriteHeader: the hash-to-number index first, then the header record.
RawdbWriteHeader(db, header) ==
    LET hash == Hash(header)
        number == header.Number
    IN  Put(Put(db, headerNumberKey(hash), number), headerKey(number, hash), header)

\* rawdb.WriteHeadHeaderHash
WriteHeadHeaderHash(db, hash) == Put(db, headHeaderKey, hash)

\* rawdb.ReadHeaderNumber: nil when the hash is not indexed.
ReadHeaderNumber(db, hash) ==
    IF headerNumberKey(hash) \in DOMAIN db THEN {db[headerNumberKey(hash)]} ELSE {}

\* rawdb.ReadHeadHeaderHash: the zero hash when no head was ever written.
ReadHeadHeaderHash(db) ==
    IF headHeaderKey \in DOMAIN db THEN db[headHeaderKey] ELSE ZeroHash

\* rawdb.ReadAllHashes: the hashes of the header records at a number, in key order.
ReadAllHashes(db, number) ==
    LET keys == SortKeys({k \in DOMAIN db : k[1] = "h" /\ k[2] = number})
    IN  [n \in 1..Len(keys) |-> keys[n][3]]

\* rawdb.ReadHeader: nil when there is no record under (number, hash).
ReadHeader(db, hash, number) ==
    IF headerKey(number, hash) \in DOMAIN db THEN {db[headerKey(number, hash)]} ELSE {}

------------------------------------------------------------------------------
(* The container's read helpers *)

\* append(headers, header) for a header pointer: ReadHeaderSince appends only a
\* non-nil header.
AppendPtr(headers, ptr) ==
    IF ptr = {} THEN headers ELSE Append(headers, CHOOSE h \in ptr : TRUE)

\* The condition with the bound left out of the range.
loopCondExclusive(i, last) == i < last

\* The range loop's condition.
loopCond(i, last) == i <= last

\* container.readHeader
readHeader(db, headerNumber) ==
    LET hashes == ReadAllHashes(db, headerNumber)
    IN  IF Len(hashes) = 0 THEN {} ELSE ReadHeader(db, hashes[1], headerNumber)

\* The body putting the header in front of those already collected.
loopBodyPrepend(db, i, headers) ==
    IF readHeader(db, i) = {} THEN headers
    ELSE <<CHOOSE h \in readHeader(db, i) : TRUE>> \o headers

\* The body appending the header of every hash found at number i.
loopBodyAllHashes(db, i, headers) ==
    LET hashes == ReadAllHashes(db, i)
    IN  headers \o [n \in 1..Len(hashes) |->
                       CHOOSE h \in ReadHeader(db, hashes[n], i) : TRUE]

\* The range loop's body: the header at number i, appended when there is one.
loopBody(db, i, headers) == AppendPtr(headers, readHeader(db, i))

\* The loop of readAllHeaders over the iterator's keys, from position n on.
RECURSIVE readAllLoop(_, _, _, _)
readAllLoop(db, keys, n, headers) ==
    IF n > Len(keys) THEN headers
    ELSE LET headerHash == BytesToHash(keys[n])
             headerNumber == ReadHeaderNumber(db, headerHash)
         IN  IF headerNumber = {} THEN headers
             ELSE readAllLoop(db, keys, n + 1,
                      Append(headers,
                             CHOOSE h \in ReadHeader(db, headerHash,
                                       CHOOSE x \in headerNumber : TRUE) : TRUE))

\* The snapshot read number by number through readHeader.
RECURSIVE readAllByNumber(_, _, _)
readAllByNumber(db, i, headers) ==
    IF i > MaxNumber THEN headers
    ELSE readAllByNumber(db, i + 1, AppendPtr(headers, readHeader(db, i)))

readAllHeadersByNumber(db) == readAllByNumber(db, 0, <<>>)

\* container.readAllHeaders
readAllHeaders(db) == readAllLoop(db, NewIterator(db, "h"), 1, <<>>)

------------------------------------------------------------------------------
(* What is staged *)

\* The header records of the database.
Staged(db) == {db[k] : k \in {x \in DOMAIN db : x[1] = "h"}}

NoError == "nil"
NoExchange == [via |-> "none"]
NoCall == [op |-> "none"]
NoFrame == [i |-> 0, last |-> 0, headers |-> <<>>]
NoWriter == [busy |-> FALSE]

Init ==
    /\ headerContainer = << >>
    /\ pndHeaderFeed = << >>
    /\ call = NoCall
    /\ pc = "idle"
    /\ frame = NoFrame
    /\ ret = <<>>
    /\ request = <<>>
    /\ exchange = NoExchange
    /\ writer = NoWriter

------------------------------------------------------------------------------
(* The container's operations *)

\* WriteHeader moving the head only to a header that is not below the head.
WriteHeaderDbHighest(db, header) ==
    LET written == RawdbWriteHeader(db, header)
        last == ReadHeaderNumber(db, ReadHeadHeaderHash(db))
    IN  IF last # {} /\ header.Number < (CHOOSE x \in last : TRUE)
        THEN written
        ELSE WriteHeadHeaderHash(written, Hash(header))

\* WriteHeader keeping one record per number: the record is not written when
\* the number is taken, and the head moves all the same.
WriteHeaderDbSkipOccupied(db, header) ==
    IF Len(ReadAllHashes(db, header.Number)) > 0
    THEN WriteHeadHeaderHash(db, Hash(header))
    ELSE WriteHeadHeaderHash(RawdbWriteHeader(db, header), Hash(header))

\* WriteHeader that writes the header and leaves the head pointer alone.
WriteHeaderDbNoHead(db, header) == RawdbWriteHeader(db, header)

\* WriteHeader keeping the newest record of a number: the records already at
\* the header's number are dropped.
WriteHeaderDbNewestPerNumber(db, header) ==
    LET kept == {key \in DOMAIN db : ~(key[1] = "h" /\ key[2] = header.Number)}
        pruned == [key \in kept |-> db[key]]
    IN  WriteHeadHeaderHash(RawdbWriteHeader(pruned, header), Hash(header))

\* WriteHeader that does nothing for a header it already holds.
WriteHeaderDbSkipKnown(db, header) ==
    IF ReadHeaderNumber(db, Hash(header)) # {}
    THEN db
    ELSE WriteHeadHeaderHash(RawdbWriteHeader(db, header), Hash(header))

\* container.WriteHeader, as a function of the database.
WriteHeaderDb(db, header) ==
    WriteHeadHeaderHash(RawdbWriteHeader(db, header), Hash(header))

\* WriteHeader that also sends the header on the feed and returns when every
\* subscribed channel has taken it: with a subscriber that takes nothing, it
\* does not return.
WriteHeaderSending(header) ==
    /\ pc = "idle"
    /\ DOMAIN pndHeaderFeed = {}
    /\ Cardinality(Staged(headerContainer) \cup {header}) <= MaxStaged
    /\ headerContainer' = WriteHeaderDb(headerContainer, header)
    /\ call' = [op |-> "WriteHeader", header |-> header]
    /\ ret' = <<>>
    /\ UNCHANGED <<pndHeaderFeed, pc, frame, request, exchange, writer>>

WriteHeader(header) ==
    /\ pc = "idle"
    /\ Cardinality(Staged(headerContainer) \cup {header}) <= MaxStaged
    /\ headerContainer' = WriteHeaderDb(headerContainer, header)
    /\ call' = [op |-> "WriteHeader", header |-> header]
    /\ ret' = <<>>
    /\ UNCHANGED <<pndHeaderFeed, pc, frame, request, exchange, writer>>

\* WriteHeaderBatch is entered.  The slice is modelled by its elements as the
\* loop reaches them: call.headers holds the elements handled so far, and is
\* the whole slice when the call returns.
WriteHeaderBatch ==
    /\ pc = "idle"
    /\ pc' = "batch"
    /\ call' = [op |-> "WriteHeaderBatch", headers |-> <<>>]
    /\ ret' = <<>>
    /\ UNCHANGED <<headerContainer, pndHeaderFeed, frame, request, exchange, writer>>

\* One iteration of WriteHeaderBatch's loop: WriteHeader on the next element.
WriteHeaderBatchLoop(header) ==
    /\ pc = "batch"
    /\ Len(call.headers) < MaxBatch
    /\ Cardinality(Staged(headerContainer) \cup {header}) <= MaxStaged
    /\ headerContainer' = WriteHeaderDb(headerContainer, header)
    /\ call' = [call EXCEPT !.headers = Append(@, header)]
    /\ UNCHANGED <<pndHeaderFeed, pc, frame, ret, request, exchange, writer>>

\* The slice is exhausted and WriteHeaderBatch returns.
WriteHeaderBatchReturn ==
    /\ pc = "batch"
    /\ pc' = "idle"
    /\ UNCHANGED <<headerContainer, pndHeaderFeed, call, frame, ret, request, exchange, writer>>

\* ReadHeaderSince whose range begins after `from`: the loop starts at the
\* number that follows the number of `from`.
ReadHeaderSinceAfter(from) ==
    LET fromHeaderNumber == ReadHeaderNumber(headerContainer, from)
        lastHeaderNumber ==
            ReadHeaderNumber(headerContainer, ReadHeadHeaderHash(headerContainer))
    IN  /\ pc = "idle"
        /\ call' = [op |-> "ReadHeaderSince", from |-> from,
                     again |-> call.op = "ReadHeaderSince" /\ call.from = from]
        /\ IF fromHeaderNumber = {}
           THEN /\ ret' = readAllHeaders(headerContainer)
                /\ UNCHANGED <<pc, frame>>
           ELSE IF lastHeaderNumber = {}
           THEN /\ ret' = <<>>
                /\ UNCHANGED <<pc, frame>>
           ELSE /\ pc' = "loop"
                /\ frame' = [i |-> Inc(CHOOSE x \in fromHeaderNumber : TRUE),
                             last |-> CHOOSE x \in lastHeaderNumber : TRUE,
                             headers |-> <<>>]
                /\ UNCHANGED ret
        /\ UNCHANGED <<headerContainer, pndHeaderFeed, request, exchange, writer>>

\* ReadHeaderSince up to its range loop: the two lookups, the full-snapshot
\* return for an unresolved `from`, the empty return for an unresolved head.
\* call.again records that the call repeats the call before it: that one was
\* a ReadHeaderSince of the same `from` that returned, and has its result in
\* ret until this one returns.
ReadHeaderSince(from) ==
    LET fromHeaderNumber == ReadHeaderNumber(headerContainer, from)
        lastHeaderNumber ==
            ReadHeaderNumber(headerContainer, ReadHeadHeaderHash(headerContainer))
    IN  /\ pc = "idle"
        /\ call' = [op |-> "ReadHeaderSince", from |-> from,
                     again |-> call.op = "ReadHeaderSince" /\ call.from = from]
        /\ IF fromHeaderNumber = {}
           THEN /\ ret' = readAllHeaders(headerContainer)
                /\ UNCHANGED <<pc, frame>>
           ELSE IF lastHeaderNumber = {}
           THEN /\ ret' = <<>>
                /\ UNCHANGED <<pc, frame>>
           ELSE /\ pc' = "loop"
                /\ frame' = [i |-> CHOOSE x \in fromHeaderNumber : TRUE,
                             last |-> CHOOSE x \in lastHeaderNumber : TRUE,
                             headers |-> <<>>]
                /\ UNCHANGED ret
        /\ UNCHANGED <<headerContainer, pndHeaderFeed, request, exchange, writer>>

\* One iteration of the range loop: i <= last holds, the header at i is
\* appended when there is one, and i is incremented.  The slice is followed
\* up to MaxStaged + 1 headers, more than a loop that ends can collect; a loop
\* that goes on after that goes on here too, its further appends not recorded.
ReadHeaderSinceLoop ==
    /\ pc = "loop"
    /\ loopCond(frame.i, frame.last)
    /\ frame' = [frame EXCEPT !.i = Inc(frame.i),
                              !.headers = IF Len(frame.headers) > MaxStaged
                                          THEN frame.headers
                                          ELSE loopBody(headerContainer, frame.i,
                                                        frame.headers)]
    /\ UNCHANGED <<headerContainer, pndHeaderFeed, call, pc, ret, request, exchange, writer>>

\* The range loop's exit handing the headers over: the records returned are
\* taken out of the database.
ReadHeaderSinceReturnTaking ==
    /\ pc = "loop"
    /\ ~loopCond(frame.i, frame.last)
    /\ ret' = frame.headers
    /\ pc' = "idle"
    /\ frame' = NoFrame
    /\ headerContainer' =
           [key \in {x \in DOMAIN headerContainer :
                        ~(x[1] = "h" /\ \E n \in 1..Len(frame.headers) :
                                            headerContainer[x] = frame.headers[n])}
               |-> headerContainer[key]]
    /\ UNCHANGED <<pndHeaderFeed, call, request, exchange, writer>>

\* The range loop's exit: i <= last fails and the headers are returned.
ReadHeaderSinceReturn ==
    /\ pc = "loop"
    /\ ~loopCond(frame.i, frame.last)
    /\ ret' = frame.headers
    /\ pc' = "idle"
    /\ frame' = NoFrame
    /\ UNCHANGED <<headerContainer, pndHeaderFeed, call, request, exchange, writer>>

Next ==
    \/ \E header \in Headers : WriteHeader(header)
    \/ WriteHeaderBatch
    \/ \E header \in Headers : WriteHeaderBatchLoop(header)
    \/ WriteHeaderBatchReturn
    \/ \E from \in Hashes : ReadHeaderSince(from)
    \/ ReadHeaderSinceLoop
    \/ ReadHeaderSinceReturn

Spec == Init /\ [][Next]_vars

\* The goroutine inside ReadHeaderSince keeps running: its loop takes its
\* next iteration while there is one, and the call returns when there is not.
FairSpec ==
    Spec /\ WF_vars(ReadHeaderSinceLoop) /\ WF_vars(ReadHeaderSinceReturn)

------------------------------------------------------------------------------
(* The confirmation exchange: hashes as bytes, and their hexadecimal text *)

\* common.HashLength: a hash is this many bytes.
HashLength == 32

\* Status
Pending == 0
Verified == 1
Invalid == 2

\* A string is the sequence of its characters.
MockedHashInvalid ==
    <<"0", "x", "c", "9", "a", "1", "9", "0", "e", "b", "5",
       "2", "c", "1", "8", "d", "f", "5", "f", "f", "c", "b",
       "1", "d", "8", "1", "7", "2", "1", "4", "e", "c", "b",
       "0", "8", "f", "0", "2", "5", "f", "8", "5", "8", "3",
       "8", "0", "5", "c", "d", "1", "2", "0", "6", "4", "d",
       "3", "0", "e", "3", "f", "9", "b", "d", "9", "d", "5">>
MockedHashPending ==
    <<"0", "x", "a", "9", "9", "c", "6", "9", "a", "3", "0",
       "1", "5", "6", "4", "9", "7", "0", "9", "5", "6", "e",
       "d", "d", "8", "9", "7", "f", "f", "0", "5", "9", "0",
       "f", "4", "c", "0", "f", "1", "0", "3", "1", "d", "a",
       "a", "4", "6", "4", "d", "e", "d", "6", "5", "5", "a",
       "f", "6", "5", "a", "d", "0", "9", "0", "6", "d", "f">>

HexDigits ==
    <<"0", "1", "2", "3", "4", "5", "6", "7", "8", "9", "a", "b", "c", "d", "e", "f">>
UpperHexDigits ==
    <<"0", "1", "2", "3", "4", "5", "6", "7", "8", "9", "A", "B", "C", "D", "E", "F">>

\* Whether c is a hexadecimal digit, of either case.
IsHexDigit(c) == \E v \in 1..Len(HexDigits) : HexDigits[v] = c \/ UpperHexDigits[v] = c

\* The value of the hexadecimal digit c.
HexValue(c) ==
    (CHOOSE v \in 1..Len(HexDigits) : HexDigits[v] = c \/ UpperHexDigits[v] = c) - 1

\* hexutil.Encode: "0x", then two lower-case digits for each byte.
Encode(bytes) ==
    <<"0", "x">> \o
    [n \in 1..(2 * Len(bytes)) |->
        LET byte == bytes[(n + 1) \div 2]
        IN  HexDigits[(IF n % 2 = 1 THEN byte \div 16 ELSE byte % 16) + 1]]

\* common.Hash.String
String(hash) == Encode(hash)

\* common.Hex2Bytes: the bytes of the leading pairs of digits; decoding stops at
\* the first pair that is not two hexadecimal digits and the error is dropped.
RECURSIVE Hex2Bytes(_)
Hex2Bytes(str) ==
    IF Len(str) < 2 \/ ~IsHexDigit(str[1]) \/ ~IsHexDigit(str[2]) THEN <<>>
    ELSE <<HexValue(str[1]) * 16 + HexValue(str[2])>> \o Hex2Bytes(SubSeq(str, 3, Len(str)))

\* common.FromHex: an optional "0x" or "0X" is dropped and a string of odd
\* length gets a leading "0".
FromHex(s) ==
    LET t == IF Len(s) >= 2 /\ s[1] = "0" /\ s[2] \in {"x", "X"}
             THEN SubSeq(s, 3, Len(s)) ELSE s
        u == IF Len(t) % 2 = 1 THEN <<"0">> \o t ELSE t
    IN  Hex2Bytes(u)

\* common.Hash.SetBytes: bytes beyond the hash's length are cropped from the
\* left, fewer are right-aligned behind zero bytes.
SetBytes(b) ==
    LET c == IF Len(b) > HashLength THEN SubSeq(b, Len(b) - HashLength + 1, Len(b)) ELSE b
    IN  [n \in 1..HashLength |->
            IF n <= HashLength - Len(c) THEN 0 ELSE c[n - (HashLength - Len(c))]]

\* common.HexToHash
HexToHash(s) == SetBytes(FromHex(s))

------------------------------------------------------------------------------
(* The mocked orchestrator service *)

\* Longest request.
MaxRequest == 3
\* Largest slot of a request item.
MaxSlot == 2

\* The hashes requests are made of: the two the service knows, and the
\* known-invalid one with its last byte cleared.
RequestHashes ==
    { HexToHash(MockedHashInvalid),
      HexToHash(MockedHashPending),
      [HexToHash(MockedHashInvalid) EXCEPT ![HashLength] = 0] }

Slots == 1..MaxSlot

\* The loop body leaving the slot of the answer at its zero value.
blockStatusOfNoSlot(blockRequest) ==
    [BlockHash |-> [Slot |-> 0, Hash |-> blockRequest.Hash],
     Status |-> IF MockedHashInvalid = String(blockRequest.Hash) THEN Invalid
                ELSE IF MockedHashPending = String(blockRequest.Hash) THEN Pending
                ELSE Verified]

\* The loop body starting from the zero value of Status, which is Pending.
blockStatusOfZeroDefault(blockRequest) ==
    [BlockHash |-> [Slot |-> blockRequest.Slot, Hash |-> blockRequest.Hash],
     Status |-> IF MockedHashInvalid = String(blockRequest.Hash) THEN Invalid
                ELSE Pending]

\* The body of the service's loop for one request item: its status, and the
\* BlockStatus that is appended to the response.
blockStatusOf(blockRequest) ==
    LET status0 == Verified
        status1 == IF MockedHashInvalid = String(blockRequest.Hash) THEN Invalid ELSE status0
        status2 == IF MockedHashPending = String(blockRequest.Hash) THEN Pending ELSE status1
    IN  [BlockHash |-> [Slot |-> blockRequest.Slot, Hash |-> blockRequest.Hash],
         Status |-> status2]

\* The service's loop over the request, in order.
RECURSIVE confirmLoop(_, _)
confirmLoop(rest, response) ==
    IF rest = <<>> THEN response
    ELSE confirmLoop(Tail(rest), Append(response, blockStatusOf(Head(rest))))

\* The service without its check of the request's length.
ConfirmPanBlockHashesUnchecked(req) ==
    [response |-> confirmLoop(req, <<>>), err |-> NoError]

\* mockOrchestratorService.ConfirmPanBlockHashes: the response and the error.
ConfirmPanBlockHashes(req) ==
    IF Len(req) < 1
    THEN [response |-> <<>>, err |-> "request has empty slice"]
    ELSE [response |-> confirmLoop(req, <<>>), err |-> NoError]

\* The caller appends an item to the request it is assembling.
AppendBlockHash(hash, slot) ==
    /\ Len(request) < MaxRequest
    /\ request' = Append(request, [Hash |-> hash, Slot |-> slot])
    /\ exchange' = NoExchange
    /\ UNCHANGED <<headerContainer, pndHeaderFeed, call, pc, frame, ret, writer>>

\* OrcClient.GetConfirmedPanBlockHashes: an empty request is refused as an
\* input error before anything is sent; any other request goes to the service
\* and the service's answer is the call's answer.
GetConfirmedPanBlockHashes ==
    /\ exchange' =
          IF Len(request) < 1
          THEN [via |-> "client", request |-> request, sent |-> FALSE,
                response |-> <<>>, err |-> "empty request"]
          ELSE LET answer == ConfirmPanBlockHashes(request)
               IN  [via |-> "client", request |-> request, sent |-> TRUE,
                    response |-> answer.response, err |-> answer.err]
    /\ request' = <<>>
    /\ UNCHANGED <<headerContainer, pndHeaderFeed, call, pc, frame, ret, writer>>

\* A peer of the in-process server calls orc_confirmPanBlockHashes itself: the
\* request reaches the service as it is.
CallContext ==
    /\ exchange' =
          LET answer == ConfirmPanBlockHashes(request)
          IN  [via |-> "rpc", request |-> request, sent |-> TRUE,
               response |-> answer.response, err |-> answer.err]
    /\ request' = <<>>
    /\ UNCHANGED <<headerContainer, pndHeaderFeed, call, pc, frame, ret, writer>>

OrcNext ==
    \/ \E hash \in RequestHashes, slot \in Slots : AppendBlockHash(hash, slot)
    \/ GetConfirmedPanBlockHashes
    \/ CallContext

OrcSpec == Init /\ [][OrcNext]_vars

------------------------------------------------------------------------------
(* The notification feed *)

\* Most subscribers of the feed.
MaxSubscribers == 1

\* event.Feed.Subscribe: a channel is registered with the feed.
Subscribe(channel) ==
    /\ channel \notin DOMAIN pndHeaderFeed
    /\ pndHeaderFeed' = [c \in DOMAIN pndHeaderFeed \cup {channel} |->
                            IF c = channel THEN 0 ELSE pndHeaderFeed[c]]
    /\ UNCHANGED <<headerContainer, call, pc, frame, ret, request, exchange, writer>>

FeedNext ==
    \/ \E header \in Headers : WriteHeader(header)
    \/ WriteHeaderBatch
    \/ \E header \in Headers : WriteHeaderBatchLoop(header)
    \/ WriteHeaderBatchReturn
    \/ \E channel \in 1..MaxSubscribers : Subscribe(channel)

FeedSpec == Init /\ [][FeedNext]_vars

------------------------------------------------------------------------------
(* A WriteHeader beside a reader *)

\* The container holds no lock, so a WriteHeader is its two statements, and
\* another goroutine's ReadHeaderSince may run between them.  Here a whole
\* ReadHeaderSince runs before the write, between its statements, or after it:
\* some of the schedules the program has, which is enough to find what a
\* reader can see.

\* WriteHeader's first statement, rawdb.WriteHeader.  writer.before keeps the
\* database as the call found it; the reader's last call is forgotten, so
\* that a read on record while the writer is busy ran between the statements.
WriteHeaderPutHeader(header) ==
    /\ pc = "idle"
    /\ ~writer.busy
    /\ Cardinality(Staged(headerContainer) \cup {header}) <= MaxStaged
    /\ headerContainer' = RawdbWriteHeader(headerContainer, header)
    /\ writer' = [busy |-> TRUE, header |-> header, before |-> headerContainer]
    /\ call' = NoCall
    /\ ret' = <<>>
    /\ UNCHANGED <<pndHeaderFeed, pc, frame, request, exchange>>

\* WriteHeader's second statement, rawdb.WriteHeadHeaderHash, and its return.
WriteHeaderPutHead ==
    /\ pc = "idle"
    /\ writer.busy
    /\ headerContainer' = WriteHeadHeaderHash(headerContainer, Hash(writer.header))
    /\ writer' = NoWriter
    /\ UNCHANGED <<pndHeaderFeed, call, pc, frame, ret, request, exchange>>

ConcNext ==
    \/ \E header \in Headers : WriteHeaderPutHeader(header)
    \/ WriteHeaderPutHead
    \/ \E from \in Hashes : ReadHeaderSince(from)
    \/ ReadHeaderSinceLoop
    \/ ReadHeaderSinceReturn

ConcSpec == Init /\ [][ConcNext]_vars

\* The range loop run to its end on one database.
RECURSIVE rangeLoop(_, _, _, _)
rangeLoop(db, i, last, headers) ==
    IF loopCond(i, last)
    THEN rangeLoop(db, Inc(i), last, loopBody(db, i, headers))
    ELSE headers

\* What a ReadHeaderSince running alone on a database returns: one sequence,
\* or none when no value of i ends its loop.
ReadHeaderSinceDb(db, from) ==
    LET fromHeaderNumber == ReadHeaderNumber(db, from)
        lastHeaderNumber == ReadHeaderNumber(db, ReadHeadHeaderHash(db))
    IN  IF fromHeaderNumber = {} THEN {readAllHeaders(db)}
        ELSE IF lastHeaderNumber = {} THEN {<<>>}
        ELSE LET last == CHOOSE x \in lastHeaderNumber : TRUE
             IN  IF \A i \in Numbers : loopCond(i, last)
                 THEN {}
                 ELSE {rangeLoop(db, CHOOSE x \in fromHeaderNumber : TRUE, last, <<>>)}

------------------------------------------------------------------------------
(* The container's properties *)

\* The elements of a sequence.
Elems(seq) == {seq[n] : n \in 1..Len(seq)}

StagedHashes == {Hash(h) : h \in Staged(headerContainer)}

\* The staged header with the given hash.
HeaderOf(hash) == CHOOSE h \in Staged(headerContainer) : Hash(h) = hash

\* The last call was a ReadHeaderSince, it has returned, and ret is its result:
\* nothing has been written since.
ReadReturned == pc = "idle" /\ call.op = "ReadHeaderSince"

\* Each header of the sequence comes before the next in number, and in hash
\* where the numbers are equal.
StrictlyAscending(seq) ==
    \A n \in 1..(Len(seq) - 1) :
        \/ seq[n].Number < seq[n + 1].Number
        \/ seq[n].Number = seq[n + 1].Number /\ Hash(seq[n]) < Hash(seq[n + 1])

\* No two positions of the sequence hold headers of the same number.
OnePerNumber(seq) ==
    \A n, m \in 1..Len(seq) : n # m => seq[n].Number # seq[m].Number

\* C1 (catch-up): a ReadHeaderSince whose `from` is not a staged hash (the zero
\* hash, or any other hash that is not staged) returns every staged header
\* exactly once and nothing else, in the one order the staged set determines;
\* so the zero hash and an unknown hash get the same sequence.
C1_CatchUp ==
    (ReadReturned /\ call.from \notin StagedHashes) =>
        /\ Elems(ret) = Staged(headerContainer)
        /\ Len(ret) = Cardinality(Staged(headerContainer))
        /\ StrictlyAscending(ret)

C1_Witness ==
    /\ ReadReturned
    /\ call.from \notin StagedHashes \cup {ZeroHash}
    /\ Cardinality(Staged(headerContainer)) >= 2
    /\ Len(ret) >= 2

\* C2 (range): a ReadHeaderSince whose `from` is staged at number k, with the
\* head at number m, returns one staged header for every number of [k, m] at
\* which a header is staged, in ascending number order, and nothing for any
\* other number; numbers of the range with nothing staged are skipped.
C2_Range ==
    (ReadReturned /\ call.from \in StagedHashes) =>
        LET k == HeaderOf(call.from).Number
            m == HeaderOf(ReadHeadHeaderHash(headerContainer)).Number
            inRange == {h.Number : h \in Staged(headerContainer)}
                           \cap {n \in Numbers : k <= n /\ n <= m}
        IN  /\ Elems(ret) \subseteq Staged(headerContainer)
            /\ {h.Number : h \in Elems(ret)} = inRange
            /\ Len(ret) = Cardinality(inRange)
            /\ \A n \in 1..(Len(ret) - 1) : ret[n].Number < ret[n + 1].Number

\* A range with a gap: headers at both ends and none at a number between.
C2_Witness ==
    /\ ReadReturned
    /\ call.from \in StagedHashes
    /\ Len(ret) >= 2
    /\ \E n \in Numbers :
          /\ ret[1].Number < n /\ n < ret[Len(ret)].Number
          /\ \A h \in Staged(headerContainer) : h.Number # n

\* C3 (append monotonicity): during and after WriteHeaderBatch([h1,...,hn]) the
\* head pointer is the hash of the last element handled (hn once the call has
\* returned), whatever the elements' numbers, and the hash of every element
\* handled resolves to that element's number.
C3_AppendMonotonicity ==
    (call.op = "WriteHeaderBatch" /\ Len(call.headers) >= 1) =>
        /\ ReadHeadHeaderHash(headerContainer) = Hash(call.headers[Len(call.headers)])
        /\ \A n \in 1..Len(call.headers) :
              ReadHeaderNumber(headerContainer, Hash(call.headers[n]))
                  = {call.headers[n].Number}

\* A batch that has returned and whose last element is below its first.
C3_Witness ==
    /\ pc = "idle"
    /\ call.op = "WriteHeaderBatch"
    /\ Len(call.headers) >= 2
    /\ call.headers[Len(call.headers)].Number < call.headers[1].Number

\* C4 (notification fan-out): every WriteHeader call, alone or inside
\* WriteHeaderBatch, delivers exactly one event to every channel subscribed to
\* the feed at the time of the write.
C4_FanOut ==
    [][ (\/ \E header \in Headers : WriteHeader(header)
         \/ \E header \in Headers : WriteHeaderBatchLoop(header))
        => \A channel \in DOMAIN pndHeaderFeed :
              pndHeaderFeed'[channel] = pndHeaderFeed[channel] + 1 ]_vars

\* C5 (store invariant): in every state, every header record sits under its
\* own number and hash and its hash is indexed to that number; and the head
\* pointer is either absent or the hash of a staged header.
C5_StoreInvariant ==
    /\ \A key \in DOMAIN headerContainer :
          key[1] = "h" =>
              /\ headerContainer[key].Number = key[2]
              /\ Hash(headerContainer[key]) = key[3]
              /\ ReadHeaderNumber(headerContainer, key[3]) = {key[2]}
    /\ \/ headHeaderKey \notin DOMAIN headerContainer
       \/ headerContainer[headHeaderKey] \in StagedHashes

\* Writes, single and batched, and a read have all happened, and two staged
\* headers share a number.
C5_Witness ==
    /\ ReadReturned
    /\ headHeaderKey \in DOMAIN headerContainer
    /\ \E g, h \in Staged(headerContainer) : g # h /\ g.Number = h.Number

\* C6 (ordering): whatever `from` is, the sequence ReadHeaderSince returns is
\* non-decreasing in header number.
C6_Ordering ==
    ReadReturned =>
        \A n \in 1..(Len(ret) - 1) : ret[n].Number <= ret[n + 1].Number

\* A snapshot for the zero hash holding two headers of one number.
C6_Witness ==
    /\ ReadReturned
    /\ call.from = ZeroHash
    /\ Len(ret) >= 2
    /\ ret[1].Number = ret[2].Number

\* C7 as stated (at most one header per number): whatever `from` is, staged,
\* unknown or zero, no two headers of the returned sequence share a number.
C7_OnePerNumber ==
    ReadReturned => OnePerNumber(ret)

\* C7 as amended: when `from` is staged, no two headers of the returned
\* sequence share a number, also when several staged headers do.
C7_OnePerNumberInRange ==
    (ReadReturned /\ call.from \in StagedHashes) => OnePerNumber(ret)

\* A range read over a number at which two headers are staged.
C7_Witness ==
    /\ ReadReturned
    /\ call.from \in StagedHashes
    /\ \E g, h \in Staged(headerContainer) :
          /\ g # h /\ g.Number = h.Number
          /\ g \in Elems(ret)

\* C11 (empty container): on a container to which nothing has been written,
\* which is one without a head pointer since every write sets it,
\* ReadHeaderSince returns the empty sequence for every `from`, the zero hash
\* or any other, and it returns.
C11_EmptyContainer ==
    /\ (ReadReturned /\ headHeaderKey \notin DOMAIN headerContainer) => ret = <<>>
    /\ (pc = "loop") => headHeaderKey \in DOMAIN headerContainer

\* A read of a hash other than the zero hash on the container as constructed.
C11_Witness ==
    /\ ReadReturned
    /\ headerContainer = << >>
    /\ call.from # ZeroHash
    /\ ret = <<>>

\* C12 (non-blocking write): whatever channels are subscribed to the feed,
\* none or some that take nothing, WriteHeader and every step of
\* WriteHeaderBatch can be taken and nothing holds them back; and the header
\* written is then staged, with the head pointer on it.
C12_NonBlockingWrite ==
    /\ \A header \in Headers :
          Cardinality(Staged(headerContainer) \cup {header}) <= MaxStaged =>
              /\ (pc = "idle") => ENABLED WriteHeader(header)
              /\ (pc = "batch" /\ Len(call.headers) < MaxBatch)
                     => ENABLED WriteHeaderBatchLoop(header)
    /\ (pc = "idle") => ENABLED WriteHeaderBatch
    /\ (pc = "batch") => ENABLED WriteHeaderBatchReturn
    /\ (call.op = "WriteHeader") =>
          /\ call.header \in Staged(headerContainer)
          /\ ReadHeadHeaderHash(headerContainer) = Hash(call.header)
    /\ (call.op = "WriteHeaderBatch") =>
          \A n \in 1..Len(call.headers) : call.headers[n] \in Staged(headerContainer)

\* A WriteHeader has returned with channels subscribed that took nothing.
C12_Witness ==
    /\ pc = "idle"
    /\ call.op = "WriteHeader"
    /\ call.header \in Staged(headerContainer)
    /\ DOMAIN pndHeaderFeed # {}
    /\ \A channel \in DOMAIN pndHeaderFeed : pndHeaderFeed[channel] = 0

\* C13 (grow-only): no step of any operation removes or changes a header
\* record or a hash's number index; so a hash, once staged, resolves to the
\* same number and the same header in every later state.
C13_GrowOnly ==
    [][ \A key \in DOMAIN headerContainer :
            key[1] \in {"h", "H"} =>
                /\ key \in DOMAIN headerContainer'
                /\ headerContainer'[key] = headerContainer[key] ]_vars

\* A WriteHeader has returned and a header staged before it, of the same
\* number as the one written, is still staged.
C13_Witness ==
    /\ pc = "idle"
    /\ call.op = "WriteHeader"
    /\ \E h \in Staged(headerContainer) :
          /\ h # call.header
          /\ h.Number = call.header.Number
          /\ ReadHeaderNumber(headerContainer, Hash(h)) = {h.Number}

\* C14 (write atomicity): a ReadHeaderSince that runs while a WriteHeader(h)
\* is between its statements returns what it would return on the database
\* before that write or on the database after it; it never sees h's record
\* and index stored with the head pointer still on the header before.
C14_WriteAtomicity ==
    (ReadReturned /\ writer.busy) =>
        ret \in ReadHeaderSinceDb(writer.before, call.from)
                \cup ReadHeaderSinceDb(WriteHeaderDb(writer.before, writer.header),
                                       call.from)

\* C15 (starts at `from`): when `from` is staged at number k and the head's
\* number is k or more, the sequence ReadHeaderSince returns is not empty and
\* its first header is the one whose hash is `from`, also when another
\* staged header has the number k.
C15_StartsAtFrom ==
    (/\ ReadReturned
     /\ call.from \in StagedHashes
     /\ HeaderOf(call.from).Number
            <= HeaderOf(ReadHeadHeaderHash(headerContainer)).Number) =>
        /\ Len(ret) >= 1
        /\ Hash(ret[1]) = call.from

\* C16 (termination): every ReadHeaderSince returns, whatever is staged and
\* whatever `from` is: a call that enters the range loop leaves it, also when
\* the head's number is the largest number there is.  (A call that does not
\* enter the loop returns in the step that begins it.)
C16_ReadHeaderSinceTerminates == (pc = "loop") ~> (pc = "idle")

\* C17 (range path agrees with snapshot path): in a state where no two staged
\* headers share a number and the head is the staged header of the largest
\* number, a ReadHeaderSince of a staged `from`, at number k, returns what the
\* full snapshot holds from number k on, in the snapshot's order.
C17_RangeAgreesWithSnapshot ==
    (/\ ReadReturned
     /\ call.from \in StagedHashes
     /\ \A g, h \in Staged(headerContainer) : g.Number = h.Number => g = h
     /\ \A h \in Staged(headerContainer) :
            h.Number <= HeaderOf(ReadHeadHeaderHash(headerContainer)).Number) =>
        ret = SelectSeq(readAllHeaders(headerContainer),
                        LAMBDA h : h.Number >= HeaderOf(call.from).Number)

\* In such a state, a range read that begins above the lowest staged header:
\* the snapshot holds more than the range.
C17_Witness ==
    /\ ReadReturned
    /\ call.from \in StagedHashes
    /\ \A g, h \in Staged(headerContainer) : g.Number = h.Number => g = h
    /\ \A h \in Staged(headerContainer) :
           h.Number <= HeaderOf(ReadHeadHeaderHash(headerContainer)).Number
    /\ Len(ret) >= 1
    /\ Len(ret) < Len(readAllHeaders(headerContainer))

\* A step of ReadHeaderSince: its entry, an iteration of its loop, its return.
ReadHeaderSinceStep ==
    \/ call'.op = "ReadHeaderSince" /\ ReadHeaderSince(call'.from)
    \/ ReadHeaderSinceLoop
    \/ ReadHeaderSinceReturn

\* C18 (read-only): no step of ReadHeaderSince changes the database, so the
\* staged headers, the number index and the head pointer are after the call
\* what they were before it; and a call that repeats the call before it, the
\* same `from` and nothing written between the two, returns what that one did.
C18_ReadOnly ==
    [][ \/ /\ headerContainer' = headerContainer
           /\ (pc' = "idle" /\ call'.op = "ReadHeaderSince" /\ call'.again)
                  => ret' = ret
        \/ ~ReadHeaderSinceStep ]_vars

\* The second of two range reads of one `from` has returned.
C18_Witness ==
    /\ ReadReturned
    /\ call.again
    /\ call.from \in StagedHashes
    /\ Len(ret) >= 2

\* The header is written, by WriteHeader or by an iteration of WriteHeaderBatch.
WriteStep(header) == WriteHeader(header) \/ WriteHeaderBatchLoop(header)

\* The header a call has just written, if it has written one.
Written(c) ==
    IF c.op = "WriteHeader" THEN {c.header}
    ELSE IF c.op = "WriteHeaderBatch" /\ Len(c.headers) >= 1
    THEN {c.headers[Len(c.headers)]}
    ELSE {}

\* The header is the last one written, and nothing was called since.
LastWritten(header) ==
    \/ call.op = "WriteHeader" /\ call.header = header
    \/ /\ call.op = "WriteHeaderBatch"
       /\ Len(call.headers) >= 1
       /\ call.headers[Len(call.headers)] = header

\* C19 (write idempotence): writing the header that was written last leaves
\* the database as it is, so twice in a row is the same as once; and writing
\* again a staged header that is not the head changes the head pointer, to
\* that header's hash, and nothing else.
C19_WriteIdempotence ==
    [][ \A header \in Written(call') :
            WriteStep(header) =>
                /\ LastWritten(header) => headerContainer' = headerContainer
                /\ (/\ header \in Staged(headerContainer)
                    /\ ReadHeadHeaderHash(headerContainer) # Hash(header)) =>
                       headerContainer' =
                           [headerContainer EXCEPT ![headHeaderKey] = Hash(header)] ]_vars

\* A batch that holds one header twice in a row has returned, another header
\* being staged.
C19_Witness ==
    /\ pc = "idle"
    /\ call.op = "WriteHeaderBatch"
    /\ Len(call.headers) = 2
    /\ call.headers[1] = call.headers[2]
    /\ Cardinality(Staged(headerContainer)) >= 2

------------------------------------------------------------------------------
(* The confirmation exchange's properties *)

\* A non-empty request was answered without an error.
Succeeded ==
    /\ exchange.via # "none"
    /\ Len(exchange.request) >= 1
    /\ exchange.err = NoError

\* C8 (response shape): a non-empty request that succeeds is answered by as
\* many items as it has, and the item at each position carries the hash and
\* the slot of the request item at that position and one of the three statuses.
C8_ResponseShape ==
    Succeeded =>
        /\ Len(exchange.response) = Len(exchange.request)
        /\ \A n \in 1..Len(exchange.request) :
              /\ exchange.response[n].BlockHash.Hash = exchange.request[n].Hash
              /\ exchange.response[n].BlockHash.Slot = exchange.request[n].Slot
              /\ exchange.response[n].Status \in {Pending, Verified, Invalid}

\* An answered request of several items that differ in hash and in slot.
C8_Witness ==
    /\ Succeeded
    /\ Len(exchange.response) >= 2
    /\ exchange.request[1].Hash # exchange.request[2].Hash
    /\ exchange.request[1].Slot # exchange.request[2].Slot

\* C9 (reference status policy): the status of every answered item is Invalid
\* for the known-invalid hash, Pending for the known-pending hash and Verified
\* for any other hash: a function of the item's hash alone, not of its slot,
\* its position or the other items.
C9_StatusPolicy ==
    Succeeded =>
        \A n \in 1..Len(exchange.response) :
            exchange.response[n].Status =
                IF exchange.request[n].Hash = HexToHash(MockedHashInvalid) THEN Invalid
                ELSE IF exchange.request[n].Hash = HexToHash(MockedHashPending) THEN Pending
                ELSE Verified

\* One answer holding all three statuses, the known-invalid hash not first.
C9_Witness ==
    /\ Succeeded
    /\ {exchange.response[n].Status : n \in 1..Len(exchange.response)}
           = {Pending, Verified, Invalid}
    /\ exchange.response[1].Status # Invalid

==============================================================================
